---------------------------- MODULE Spec2Model ----------------------------
(***************************************************************************)
(* Model of the repository's single source file, src/pages/Chapter2.js.   *)
(*                                                                         *)
(* The file is a static page: 593 lines of heading markup, prose, code     *)
(* listings delimited by <pre><code> ... </code></pre>, and "Things to     *)
(* Remember" bullet lists.  It defines no function, class or statement:    *)
(* there is no parse, no render, no entity decoder or encoder and no       *)
(* ValidationError anywhere in it.  What the file does fix is its own      *)
(* content, and that is what is modelled here: the line numbers on which   *)
(* each kind of markup occurs (taken from the file, line by line), and a   *)
(* reader that goes through the page from its first line to its last and   *)
(* records the structure it meets.                                         *)
(***************************************************************************)
EXTENDS Integers, Sequences, FiniteSets

(***************************************************************************)
(* The page's content.  Line numbers are those of src/pages/Chapter2.js.   *)
(***************************************************************************)

\* The number of lines of the page (the last one has no line terminator).
NumLines == 593

\* Lines holding a level-1 heading, <h1> ... </h1>.
H1Lines == {1}

\* Lines holding a level-2 heading, <h2> ... </h2>: the page has none.
H2Lines == {}

\* Lines holding a level-3 heading, <h3> ... </h3>.
H3Lines == {5, 92}

\* Lines holding a listing's begin marker, <pre><code>.
BeginLines ==
  { 11, 20, 29, 46, 54, 75, 81, 95, 105, 120, 134, 145, 154, 173 }

\* The end markers as a reading that knows the marker only when it stands
\* alone on its line would take them: line 43, where the marker follows
\* listing text, is missed.
EndLinesAloneOnLine ==
  { 18, 27, 51, 61, 79, 85, 103, 112, 127, 141, 150, 163, 183 }

\* Lines holding a listing's end marker, </code></pre>.  On line 43 the
\* marker follows listing text on the same line; on the others it stands
\* alone (lines 112, 141 and 163 with a trailing blank).
EndLines ==
  { 18, 27, 43, 51, 61, 79, 85, 103, 112, 127, 141, 150, 163, 183 }

\* Lines that read "Things to Remember".
RememberLines ==
  { 67, 88, 165, 235, 318, 377, 455, 518, 562, 591 }

\* Lines that start with the bullet sign (U+2726) and a tab.
BulletLines ==
  { 68, 69, 70, 71, 89, 90, 166, 167, 168, 236, 237, 238, 319, 320, 321,
    378, 379, 380, 381, 456, 458, 460, 461, 462, 519, 520, 563, 564, 592,
    593 }

\* Lines holding the entity &#123; (an opening brace).
LBraceEntityLines ==
  { 13, 14, 22, 23, 31, 33, 38, 40, 55, 56, 76, 82, 96, 98, 107, 108, 147,
    155, 175, 177, 186, 188, 202, 203, 214, 215, 221, 223, 224, 225, 244,
    246, 248, 256, 257, 261, 263, 267, 269, 271, 273, 280, 283, 293, 296,
    306, 308, 310, 325, 327, 343, 345, 354, 356, 359, 361, 367, 369, 370,
    386, 388, 390, 392, 393, 396, 406, 407, 410, 416, 417, 420, 430, 431,
    434, 437, 438, 441, 444, 447, 466, 468, 469, 472, 485, 487, 488, 504,
    506, 508, 509, 528, 535, 536, 545, 553, 554, 571, 578 }

\* Lines holding the entity &#125; (a closing brace).
RBraceEntityLines ==
  { 15, 17, 24, 26, 34, 36, 41, 43, 59, 60, 78, 84, 101, 102, 110, 111, 149,
    158, 179, 181, 190, 192, 205, 207, 217, 218, 224, 225, 226, 227, 249,
    250, 252, 258, 262, 264, 265, 270, 272, 274, 275, 287, 289, 300, 302,
    310, 312, 315, 327, 328, 330, 345, 346, 348, 361, 362, 363, 365, 370,
    371, 372, 374, 386, 388, 390, 395, 398, 400, 409, 412, 414, 419, 422,
    424, 430, 433, 434, 437, 440, 441, 444, 447, 466, 469, 474, 480, 485,
    488, 491, 494, 504, 509, 512, 515, 531, 538, 540, 548, 554, 556, 574,
    580 }

\* Lines holding the entity &#60; (a less-than sign).
LtEntityLines ==
  { 14, 23, 33, 40, 246, 257, 261, 263, 269, 271, 273, 327, 345, 356, 369 }

\* Lines holding the entity &#62; (a greater-than sign).
GtEntityLines == {248, 251}

\* The page as it would be with the less-than sign of line 14 (i &#60; n,
\* inside the first listing) written as a literal character.
LiteralLtOnLine14 == {14}

\* Lines holding a literal brace or a literal less-than sign that is not
\* part of one of the tags <h1>, <h3>, <pre>, <code>: the page has none.
LiteralSpecialLines == {}

(***************************************************************************)
(* What one line contributes, read off the sets above.                     *)
(***************************************************************************)

\* The heading levels as a reading that misses the <h1> tag would take them.
HeadingLevelWithoutH1(n) ==
  IF n \in H2Lines THEN 2
  ELSE IF n \in H3Lines THEN 3
  ELSE 0

\* The heading level of line n, 0 when the line holds no heading.
HeadingLevel(n) ==
  IF n \in H1Lines THEN 1
  ELSE IF n \in H2Lines THEN 2
  ELSE IF n \in H3Lines THEN 3
  ELSE 0

\* The entities line n holds.
EntitiesOf(n) ==
  (IF n \in LBraceEntityLines THEN {"&#123;"} ELSE {})
    \cup (IF n \in RBraceEntityLines THEN {"&#125;"} ELSE {})
    \cup (IF n \in LtEntityLines THEN {"&#60;"} ELSE {})
    \cup (IF n \in GtEntityLines THEN {"&#62;"} ELSE {})

(***************************************************************************)
(* The reader: one pass over the page, top to bottom, a line per step.     *)
(***************************************************************************)
VARIABLES
  pos,          \* the number of lines read so far
  depth,        \* listings begun and not yet ended
  headings,     \* the heading levels met, in page order
  listings,     \* listings ended so far
  strayEnd,     \* an end marker was met with no listing open
  nestedBegin,  \* a begin marker was met inside an open listing
  callouts,     \* per "Things to Remember" list met, its bullets so far
  listingEntities, \* the entities met on lines inside a listing
  literalInListing, \* a literal brace or less-than sign was met in a listing
  done          \* the reader has gone past the last line

vars ==
  << pos, depth, headings, listings, strayEnd, nestedBegin, callouts,
     listingEntities, literalInListing, done >>

Init ==
  /\ pos = 0
  /\ depth = 0
  /\ headings = << >>
  /\ listings = 0
  /\ strayEnd = FALSE
  /\ nestedBegin = FALSE
  /\ callouts = << >>
  /\ listingEntities = {}
  /\ literalInListing = FALSE
  /\ done = FALSE

\* The bullets of the list a bullet line belongs to: a bullet line read
\* after a "Things to Remember" line counts for the last such list.
AddBullet(cs) ==
  IF Len(cs) = 0 THEN cs
  ELSE [cs EXCEPT ![Len(cs)] = @ + 1]

\* Read line pos + 1.
ReadLine ==
  /\ ~done
  /\ pos < NumLines
  /\ LET n == pos + 1
         lvl == HeadingLevel(n)
     IN
       /\ pos' = n
       /\ headings' = IF lvl = 0 THEN headings ELSE Append(headings, lvl)
       /\ nestedBegin' = (nestedBegin \/ (n \in BeginLines /\ depth > 0))
       /\ strayEnd' = (strayEnd \/ (n \in EndLines /\ depth = 0))
       /\ depth' =
            IF n \in BeginLines THEN depth + 1
            ELSE IF n \in EndLines /\ depth > 0 THEN depth - 1
            ELSE depth
       /\ listings' =
            IF n \in EndLines /\ depth > 0 THEN listings + 1 ELSE listings
       /\ callouts' =
            IF n \in RememberLines THEN Append(callouts, 0)
            ELSE IF n \in BulletLines THEN AddBullet(callouts)
            ELSE callouts
       \* A line read while a listing is open is listing text, up to its end
       \* marker (line 43 holds text before the marker); a begin line is not.
       /\ listingEntities' =
            IF depth > 0 /\ n \notin BeginLines
              THEN listingEntities \cup EntitiesOf(n)
              ELSE listingEntities
       /\ literalInListing' =
            (literalInListing
               \/ (depth > 0 /\ n \notin BeginLines
                     /\ n \in LiteralSpecialLines))
       /\ UNCHANGED done

\* The last line has been read: the pass is over.
Finish ==
  /\ ~done
  /\ pos = NumLines
  /\ done' = TRUE
  /\ UNCHANGED
       << pos, depth, headings, listings, strayEnd, nestedBegin, callouts,
          listingEntities, literalInListing >>

Next == ReadLine \/ Finish

Spec == Init /\ [][Next]_vars

\* The shape of the reader's state.
TypeOK ==
  /\ pos \in 0..NumLines
  /\ depth \in Nat
  /\ headings \in Seq(1..3)
  /\ listings \in Nat
  /\ strayEnd \in BOOLEAN
  /\ nestedBegin \in BOOLEAN
  /\ callouts \in Seq(Nat)
  /\ listingEntities \subseteq {"&#123;", "&#125;", "&#60;", "&#62;"}
  /\ literalInListing \in BOOLEAN
  /\ done \in BOOLEAN

(***************************************************************************)
(* Properties of the page.                                                 *)
(***************************************************************************)

\* C14: in Chapter2.js the listing markers are balanced and never nested.
\* At every point of the top-to-bottom pass at most one listing is open, no
\* begin marker has been met inside an open listing, no end marker has been
\* met with no listing open, and at the end of the page no listing is left
\* open: every <pre><code> is followed by its </code></pre> before the next
\* <pre><code> and before the end of the file.
MarkersBalanced ==
  /\ depth \in {0, 1}
  /\ ~nestedBegin
  /\ ~strayEnd
  /\ (pos = NumLines => depth = 0)
  /\ (depth = 0 => listings = Cardinality({b \in BeginLines : b <= pos}))

\* C14's case: the whole page has been read and all of its 14 listings
\* (the last one ends on line 183) have been begun and ended.
MarkersBalancedWitness ==
  /\ done
  /\ listings = 14
  /\ Cardinality(BeginLines) = 14

\* C15: the heading sequence of Chapter2.js keeps the heading nesting at
\* every position of the pass.  The first heading met is level 1 (line 1);
\* the level-3 headings are those of lines 5 and 92; and every level-3
\* heading met has a level-1 heading before it in page order.
HeadingsNested ==
  /\ (pos >= 1 => Len(headings) >= 1 /\ headings[1] = 1)
  /\ (pos >= 5 => Len(headings) >= 2 /\ headings[2] = 3)
  /\ (pos >= 92 => headings = << 1, 3, 3 >>)
  /\ \A i \in 1..Len(headings) :
        headings[i] = 3 => \E j \in 1..(i - 1) : headings[j] = 1

\* C15's case: the whole page has been read, both level-3 headings (lines 5
\* and 92) have been met, and the level-1 heading came first.
HeadingsNestedWitness ==
  /\ done
  /\ Len(headings) = 3
  /\ headings[1] = 1
  /\ headings[3] = 3

\* C16: inside every delimited listing of Chapter2.js, braces and the
\* less-than sign occur only as the entities &#123;, &#125; and &#60;: at
\* every point of the pass no literal brace or less-than sign has been met
\* on a listing's line, and the entities met in listings are among these
\* three (the page's &#62;, lines 248 and 251, lies outside the listings).
ListingsUseEntitiesOnly ==
  /\ ~literalInListing
  /\ listingEntities \subseteq {"&#123;", "&#125;", "&#60;"}
  /\ (pos >= 183 => listingEntities = {"&#123;", "&#125;", "&#60;"})

\* C16's case: the whole page has been read and its listings held each of
\* the three entities.
ListingsUseEntitiesOnlyWitness ==
  /\ done
  /\ depth = 0
  /\ "&#123;" \in listingEntities
  /\ "&#125;" \in listingEntities
  /\ "&#60;" \in listingEntities

=============================================================================
